---- MODULE Spec2Model ----
(***************************************************************************)
(* SecureAgentBase: the Remote Config validator / setter scripts, the      *)
(* deploy-and-self-heal script and the useFeatureFlag hook.                *)
(*                                                                         *)
(* Three state machines share this module, each with its own               *)
(* specification:                                                          *)
(*   Spec      the deploy script (deploy(), its helpers, the process exit) *)
(*   SpecLive  the deploy script with the fairness of its scheduling       *)
(*   SpecRC    the validator and the Remote Config diff / sync routines    *)
(*   SpecHook  the useFeatureFlag React hook                               *)
(* The variables of the machines a specification does not run keep their   *)
(* initial values.                                                         *)
(***************************************************************************)
EXTENDS Integers, Sequences, FiniteSets, TLC

(***************************************************************************)
(* Bounds of the model.                                                    *)
(***************************************************************************)
NumParams == 1      \* parameter keys are 1..NumParams
NumConds == 1       \* condition names are 1..NumConds

ParamKeys == 1..NumParams
CondNames == 1..NumConds
Values == {"control", "beta"}             \* parameter values (strings)
Expressions == {"e1", "e2"}               \* condition expressions
Undef == "undefined"                      \* JS undefined (x?.value of a missing field)

(***************************************************************************)
(* Remote Config data.                                                     *)
(*   parameters        key -> [defaultValue, conditionalValues]            *)
(*   conditions        sequence of [name, expression], names distinct      *)
(*   conditionalValues key -> (condition name -> value)   (local file only)*)
(* A JS object is a function whose DOMAIN is the set of its own keys.      *)
(***************************************************************************)
PartialFn(D, R) == UNION {[S -> R] : S \in SUBSET D}

Range(s) == {s[i] : i \in DOMAIN s}

DistinctNames(conds) ==
  \A i, j \in DOMAIN conds : conds[i].name = conds[j].name => i = j

ConditionLists ==
  {cs \in UNION {[1..n -> [name : CondNames, expression : Expressions]] : n \in 0..NumConds} :
     DistinctNames(cs)}

\* parameters as they are written in the local remote-config.json
LocalParam == [defaultValue : Values \cup {Undef}, conditionalValues : {<<>>}]
\* parameters as the Remote Config service returns them
RemoteParam == [defaultValue : Values \cup {Undef}, conditionalValues : PartialFn(CondNames, Values)]

LocalConfigs ==
  [parameters : PartialFn(ParamKeys, LocalParam),
   conditions : ConditionLists,
   conditionalValues : PartialFn(ParamKeys, PartialFn(CondNames, Values))]

RemoteConfigs ==
  [parameters : PartialFn(ParamKeys, RemoteParam),
   conditions : ConditionLists]

\* Array.prototype.find(c => c.name === name): index of the first match, 0 if none
RECURSIVE FindFrom(_, _, _)
FindFrom(conds, name, i) ==
  IF i > Len(conds) THEN 0
  ELSE IF conds[i].name = name THEN i
  ELSE FindFrom(conds, name, i + 1)

Find(conds, name) == FindFrom(conds, name, 1)

Err(kind, p, c) == [kind |-> kind, param |-> p, cond |-> c]

\* localConfig.conditionalValues[paramKey] || {}
LocalConditionals(localConfig, p) ==
  IF p \in DOMAIN localConfig.conditionalValues THEN localConfig.conditionalValues[p] ELSE <<>>

\* inner loop over Object.keys(localConditionals), lines 77-83 / 273-279
RECURSIVE ConditionalErrors(_, _, _, _)
ConditionalErrors(localConditionals, remoteConditionals, p, c) ==
  IF c > NumConds THEN <<>>
  ELSE (IF c \notin DOMAIN localConditionals THEN <<>>
        ELSE IF c \notin DOMAIN remoteConditionals THEN <<Err("missingCondition", p, c)>>
        ELSE IF localConditionals[c] # remoteConditionals[c] THEN <<Err("wrongValue", p, c)>>
        ELSE <<>>)
       \o ConditionalErrors(localConditionals, remoteConditionals, p, c + 1)

\* loop over Object.entries(localParams), lines 60-84 / 256-280
RECURSIVE ParamErrors(_, _, _)
ParamErrors(localConfig, remoteConfig, p) ==
  IF p > NumParams THEN <<>>
  ELSE (IF p \notin DOMAIN localConfig.parameters THEN <<>>
        ELSE IF p \notin DOMAIN remoteConfig.parameters THEN <<Err("missing", p, 0)>>
        ELSE (IF localConfig.parameters[p].defaultValue # remoteConfig.parameters[p].defaultValue
              THEN <<Err("wrongDefault", p, 0)>> ELSE <<>>)
             \o ConditionalErrors(LocalConditionals(localConfig, p),
                                  remoteConfig.parameters[p].conditionalValues, p, 1))
       \o ParamErrors(localConfig, remoteConfig, p + 1)

\* loop over Object.keys(remoteParams), lines 86-90
RECURSIVE ExtraWarnings(_, _, _)
ExtraWarnings(localConfig, remoteConfig, p) ==
  IF p > NumParams THEN <<>>
  ELSE (IF p \in DOMAIN remoteConfig.parameters /\ p \notin DOMAIN localConfig.parameters
        THEN <<Err("extra", p, 0)>> ELSE <<>>)
       \o ExtraWarnings(localConfig, remoteConfig, p + 1)

\* the loop comparing names only
RECURSIVE ConditionErrors_NamesOnly(_, _, _)
ConditionErrors_NamesOnly(localConditions, remoteConditions, i) ==
  IF i > Len(localConditions) THEN <<>>
  ELSE (IF Find(remoteConditions, localConditions[i].name) = 0
        THEN <<Err("conditionMissing", 0, localConditions[i].name)>>
        ELSE <<>>)
       \o ConditionErrors_NamesOnly(localConditions, remoteConditions, i + 1)

\* loop over localConditions of the standalone validator, lines 92-99
RECURSIVE ConditionErrors(_, _, _)
ConditionErrors(localConditions, remoteConditions, i) ==
  IF i > Len(localConditions) THEN <<>>
  ELSE (LET j == Find(remoteConditions, localConditions[i].name)
        IN  IF j = 0 THEN <<Err("conditionMissing", 0, localConditions[i].name)>>
            ELSE IF localConditions[i].expression # remoteConditions[j].expression
                 THEN <<Err("conditionExpression", 0, localConditions[i].name)>>
            ELSE <<>>)
       \o ConditionErrors(localConditions, remoteConditions, i + 1)

\* loop over localConditions of the deploy script, lines 282-287 (names only)
RECURSIVE ConditionNameErrors(_, _, _)
ConditionNameErrors(localConditions, remoteConditions, i) ==
  IF i > Len(localConditions) THEN <<>>
  ELSE (IF Find(remoteConditions, localConditions[i].name) = 0
        THEN <<Err("conditionMissing", 0, localConditions[i].name)>>
        ELSE <<>>)
       \o ConditionNameErrors(localConditions, remoteConditions, i + 1)

\* validate(localConfig, remoteConfig) of the standalone validator
validate(localConfig, remoteConfig) ==
  [errors   |-> ParamErrors(localConfig, remoteConfig, 1)
                \o ConditionErrors(localConfig.conditions, remoteConfig.conditions, 1),
   warnings |-> ExtraWarnings(localConfig, remoteConfig, 1)]

\* the comparison made by validateRemoteConfig(projectId) of the deploy script
validateRemoteConfig(localConfig, remoteConfig) ==
  ParamErrors(localConfig, remoteConfig, 1)
  \o ConditionNameErrors(localConfig.conditions, remoteConfig.conditions, 1)

\* the template with the conditional values left out
TemplateParam_NoConditionals(config, p) ==
  IF p \in DOMAIN config.conditionalValues
  THEN [defaultValue      |-> IF p \in DOMAIN config.parameters
                              THEN config.parameters[p].defaultValue ELSE "control",
        conditionalValues |-> <<>>]
  ELSE config.parameters[p]

\* the template built by syncRemoteConfig (and by the setter's main)
TemplateParam(config, p) ==
  IF p \in DOMAIN config.conditionalValues
  THEN [defaultValue      |-> IF p \in DOMAIN config.parameters
                              THEN config.parameters[p].defaultValue ELSE "control",
        conditionalValues |-> config.conditionalValues[p]]
  ELSE config.parameters[p]

\* the template with the conditions left out
Template_NoConditions(config) ==
  [conditions |-> <<>>,
   parameters |-> [p \in DOMAIN config.parameters \cup DOMAIN config.conditionalValues |->
                     TemplateParam(config, p)]]

\* const template = { conditions, parameters } after the loop over
\* config.conditionalValues
Template(config) ==
  [conditions |-> config.conditions,
   parameters |-> [p \in DOMAIN config.parameters \cup DOMAIN config.conditionalValues |->
                     TemplateParam(config, p)]]

(***************************************************************************)
(* The deploy script: constants and pure helpers.                          *)
(***************************************************************************)
MAX_ATTEMPTS == 5
MAX_WAIT == 12        \* while (!runId && waitCount < 12)
RUN_LIST_LIMIT == 10  \* gh run list --limit=10

MaxLogLen == 1        \* number of pattern occurrences in a fetched log
NumModules == 1       \* module names are 1..NumModules

Modules == 1..NumModules

\* const projectId = isProduction ? 'argbase-prod' : 'argbase-staging'
ProjectId(prod) == IF prod THEN "argbase-prod" ELSE "argbase-staging"

MaxProjects == 2      \* length of the list printed by `firebase projects:list`

Flags == {"--prod", "--staging"}

\* entries of `firebase projects:list --json`; includesArgbase is
\* p.name?.includes('argbase') (falsy when the entry has no name)
Project(name, id) == [name |-> name, projectId |-> id]

ListedProjects ==
  {Project("argbase-prod", "argbase-prod"), Project("argbase-staging", "argbase-staging"),
   Project("blog", "blog-1234"), Project(Undef, "argbase-prod")}

includesArgbase(name) == name \in {"argbase-prod", "argbase-staging"}

ProjectLists == UNION {[1..n -> ListedProjects] : n \in 0..MaxProjects}

\* projects.find(p => p.name?.includes('argbase')): index of the first match, 0 if none
RECURSIVE FindArgbase(_, _)
FindArgbase(projects, i) ==
  IF i > Len(projects) THEN 0
  ELSE IF includesArgbase(projects[i].name) THEN i
  ELSE FindArgbase(projects, i + 1)

\* getProjectId of the validator
ValidatorProjectId(a) ==
  IF "--prod" \in a THEN "argbase-prod"
  ELSE IF "--staging" \in a THEN "argbase-staging"
  ELSE "argbase-staging"

\* getProjectId of the setter
SetterProjectId(a, projects) ==
  IF "--prod" \in a THEN "argbase-prod"
  ELSE IF "--staging" \in a THEN "argbase-staging"
  ELSE LET i == FindArgbase(projects, 1)
       IN  IF i # 0 THEN projects[i].projectId ELSE "argbase-staging"

\* the check with its second comparison inverted
BranchRejected_Inverted(b) == b # "main" /\ b = "master"

\* branch !== 'main' && branch !== 'master'
BranchRejected(b) == b # "main" /\ b # "master"

\* the sync made unconditional
NeedsSync_Always(validationErrors) == Len(validationErrors) >= 0

\* validationErrors.length > 0
NeedsSync(validationErrors) == Len(validationErrors) > 0

\* the budget check off by one
BudgetExhausted_OffByOne(a) == a > MAX_ATTEMPTS + 1

\* attempt > MAX_ATTEMPTS
BudgetExhausted(a) == a > MAX_ATTEMPTS

\* the production guard left out
ProductionGuard_Missing(prod) == FALSE

\* if (isProduction) { ... return false; }
ProductionGuard(prod) == prod

\* the loop exit testing the wrong field
PollDone_WrongField(statusResult) == statusResult.conclusion = "completed"

\* statusResult.status === 'completed'
PollDone(statusResult) == statusResult.status = "completed"

\* statusResult.conclusion === 'success'
DeploySucceeded(statusResult) == statusResult.conclusion = "success"

\* process.exit(success ? 0 : 1) in .then, process.exit(1) in .catch
ExitCodeOf(res) == IF res = "true" THEN 0 ELSE 1

\* first `limit` entries, what `gh run list --limit=10` prints
Take(s, n) == SubSeq(s, 1, IF Len(s) < n THEN Len(s) ELSE n)

RECURSIVE FindSha(_, _, _)
FindSha(data, sha, i) ==
  IF i > Len(data) THEN 0
  ELSE IF data[i].headSha = sha THEN i
  ELSE FindSha(data, sha, i + 1)

\* the lookup ignoring the commit: always the newest run
getLatestRunId_Newest(data, commitSha) ==
  IF Len(data) = 0 THEN 0 ELSE data[1].databaseId

\* getLatestRunId(commitSha) on the parsed list; 0 models null, sha 0 models
\* a missing / empty commitSha argument
getLatestRunId(data, commitSha) ==
  IF commitSha # 0
  THEN LET i == FindSha(data, commitSha, 1)
       IN  IF i = 0 THEN 0 ELSE data[i].databaseId
  ELSE IF Len(data) = 0 THEN 0 ELSE data[1].databaseId

\* A fetched log is the sequence of the pattern occurrences in it:
\*   "eslint"  /\[eslint\].*?Line \d+:\d+/gi
\*   "build"   /Failed to compile/gi
\*   "dep"     /Cannot find module ['"](\@?[^'"]+)['"]/gi, with the captured name
\*   "other"   text matching none of the patterns
LogTokens ==
  {[kind |-> k, module |-> 0] : k \in {"eslint", "build", "other"}}
  \cup {[kind |-> "dep", module |-> m] : m \in Modules}

Logs == UNION {[1..n -> LogTokens] : n \in 0..MaxLogLen}

MaxParseLen == 3      \* pattern occurrences in a log given to parseErrors alone
ParseLogs == UNION {[1..n -> LogTokens] : n \in 0..MaxParseLen}

\* the matches pushed as they are
Dedup_Keep(s) == s

\* [...new Set(depMatches)]: first occurrences, in order
RECURSIVE Dedup(_)
Dedup(s) ==
  IF s = <<>> THEN <<>>
  ELSE LET front == Dedup(SubSeq(s, 1, Len(s) - 1))
           last == s[Len(s)]
       IN  IF last \in Range(front) THEN front ELSE Append(front, last)

ModuleNames(s) == [i \in DOMAIN s |-> s[i].module]

\* parseErrors(logs)
parseErrors(logs) ==
  LET eslintMatches == SelectSeq(logs, LAMBDA t : t.kind = "eslint")
      buildMatches == SelectSeq(logs, LAMBDA t : t.kind = "build")
      depMatches == ModuleNames(SelectSeq(logs, LAMBDA t : t.kind = "dep"))
  IN  (IF Len(eslintMatches) > 0
       THEN <<[type |-> "eslint", matches |-> [i \in DOMAIN eslintMatches |-> 0]]>> ELSE <<>>)
      \o (IF Len(buildMatches) > 0
          THEN <<[type |-> "build", matches |-> [i \in DOMAIN buildMatches |-> 0]]>> ELSE <<>>)
      \o (IF Len(depMatches) > 0
          THEN <<[type |-> "dependency", matches |-> Dedup(depMatches)]>> ELSE <<>>)

\* the commands autoFix runs for a list of parsed errors, in order:
\* 0 is `npx eslint src/ --fix`, m > 0 is `npm install --save-dev <m>`
RECURSIVE FixCommands(_)
FixCommands(errors) ==
  IF errors = <<>> THEN <<>>
  ELSE (IF errors[1].type = "eslint" THEN <<0>>
        ELSE IF errors[1].type = "dependency" THEN errors[1].matches
        ELSE <<>>)
       \o FixCommands(Tail(errors))

(***************************************************************************)
(* The useFeatureFlag hook: constants and pure helpers.                    *)
(***************************************************************************)
NumHooks == 1         \* hook instances are 1..NumHooks
MaxKeyChanges == 1    \* re-renders of an instance with another flagKey

Hooks == 1..NumHooks
FlagKeys == {"navigation_banner", "default_flag"}
NoValue == "null"                         \* JS null
FlagStrings == {"", "control", "beta"}    \* "" is the empty string (falsy)

\* a localStorage entry: does its key start with 'beta_enabled_', and its value
Entry(b, v) == [beta |-> b, value |-> v]

\* the localStorage contents of the page loads: empty; an unrelated key and
\* the opt-in key set to 'true'; an opt-in key set to 'false' before one set
\* to 'true'
HookStorages ==
  {<<>>,
   <<Entry(FALSE, "true"), Entry(TRUE, "true")>>,
   <<Entry(TRUE, "false"), Entry(TRUE, "true")>>}

\* a window property holding a flag object: unset, or the object; a key
\* that is missing or empty reads as ""
Unset == [on |-> FALSE, map |-> [k \in FlagKeys |-> ""]]
Given(m) == [on |-> TRUE, map |-> m]

\* window.__FLAG_TEST_MODE__
TestModes ==
  {Unset, Given([k \in FlagKeys |-> IF k = "navigation_banner" THEN "control" ELSE ""])}

\* what fetchFeatureFlags can resolve to: the Remote Config strings, or the
\* declared defaults after a failure
FetchResults ==
  {[k \in FlagKeys |-> IF k = "navigation_banner" THEN "" ELSE "beta"],
   [k \in FlagKeys |-> "control"]}

\* no catch block ran in the last step
NoCatch == [hook |-> 0, alive |-> FALSE]

\* x || null
OrNull(x) == IF x = "" THEN NoValue ELSE x

\* the loop of getBetaFromStorage: returns at the first key with the prefix
RECURSIVE BetaFrom(_, _)
BetaFrom(store, i) ==
  IF i > Len(store) THEN FALSE
  ELSE IF store[i].beta THEN store[i].value = "true"
  ELSE BetaFrom(store, i + 1)

getBetaFromStorage(store) == BetaFrom(store, 1)

\* loadFlag without its test-override branch
LoadNow_NoOverride(staging, store, testOverride, cached, flagKey) ==
  IF staging /\ flagKey = "navigation_banner" THEN [set |-> TRUE, value |-> "beta"]
  ELSE IF flagKey = "navigation_banner" /\ getBetaFromStorage(store)
       THEN [set |-> TRUE, value |-> "beta"]
  ELSE IF cached.on THEN [set |-> TRUE, value |-> OrNull(cached.map[flagKey])]
  ELSE [set |-> FALSE, value |-> NoValue]

\* the branch of loadFlag (lines 54-88) taken for a key: the value it sets at
\* once, or "fetch" when it has to await fetchFeatureFlags
LoadNow(staging, store, testOverride, cached, flagKey) ==
  IF staging /\ flagKey = "navigation_banner" THEN [set |-> TRUE, value |-> "beta"]
  ELSE IF flagKey = "navigation_banner" /\ getBetaFromStorage(store)
       THEN [set |-> TRUE, value |-> "beta"]
  ELSE IF testOverride.on THEN [set |-> TRUE, value |-> OrNull(testOverride.map[flagKey])]
  ELSE IF cached.on THEN [set |-> TRUE, value |-> OrNull(cached.map[flagKey])]
  ELSE [set |-> FALSE, value |-> NoValue]

\* getInitialValue (lines 28-36)
getInitialValue(staging, store, flagKey) ==
  IF staging /\ flagKey = "navigation_banner" THEN "beta"
  ELSE IF flagKey = "navigation_banner" /\ getBetaFromStorage(store) THEN "beta"
  ELSE NoValue

\* the initializer without its staging branch
InitialLoading_NoStaging(staging, store, flagKey) ==
  IF flagKey = "navigation_banner" /\ getBetaFromStorage(store) THEN FALSE
  ELSE TRUE

\* the initializer of loading (lines 39-47)
InitialLoading(staging, store, flagKey) ==
  IF staging /\ flagKey = "navigation_banner" THEN FALSE
  ELSE IF flagKey = "navigation_banner" /\ getBetaFromStorage(store) THEN FALSE
  ELSE TRUE

(***************************************************************************)
(* AuthProvider: constants.                                                *)
(***************************************************************************)
NumAuths == 2         \* auth instances are 1..NumAuths
MaxAuthChanges == 1   \* renders of the provider with another auth prop
MaxAuthOps == 2       \* calls of login, signup, loginWithGoogle, logout

Auths == 1..NumAuths
AuthUsers == {"u1", "u2"}                  \* signed-in users; NoValue is null
AuthOps == {"login", "signup", "loginWithGoogle", "logout"}

\* the listener has not been called
NoCall == [called |-> FALSE, auth |-> 0, arg |-> NoValue]

(***************************************************************************)
(* remote-config.js: fetchFeatureFlags and its helpers.                    *)
(***************************************************************************)
MaxFlags == 2         \* number of declarations in FEATURE_FLAGS

FlagDefaults == {"control", "beta"}       \* flag.default of a declaration
\* FEATURE_FLAGS as Object.values lists it: declarations [key, default]
FlagDeclarations ==
  UNION {[1..n -> [key : FlagKeys, default : FlagDefaults]] : n \in 0..MaxFlags}

\* the values the Remote Config backend holds for the keys
ServerConfigs == PartialFn(FlagKeys, {"", "beta"})

\* obj[k] = v
Assign(obj, k, v) == [x \in DOMAIN obj \cup {k} |-> IF x = k THEN v ELSE obj[x]]

\* the loops `for (const flag of Object.values(FEATURE_FLAGS)) o[flag.key] =
\* flag.default` (lines 99-102 and 117-120), from declaration i on
RECURSIVE DefaultsFrom(_, _, _)
DefaultsFrom(decls, i, acc) ==
  IF i > Len(decls) THEN acc
  ELSE DefaultsFrom(decls, i + 1, Assign(acc, decls[i].key, decls[i].default))

\* getString(rc, key): the activated value, else the default of
\* rc.defaultConfig, else the empty string
getString(active, defaultConfig, key) ==
  IF key \in DOMAIN active THEN active[key]
  ELSE IF key \in DOMAIN defaultConfig THEN defaultConfig[key]
  ELSE ""

\* the loop of lines 108-111
RECURSIVE FlagsFrom(_, _, _, _, _)
FlagsFrom(decls, i, acc, active, defaultConfig) ==
  IF i > Len(decls) THEN acc
  ELSE FlagsFrom(decls, i + 1,
                 Assign(acc, decls[i].key, getString(active, defaultConfig, decls[i].key)),
                 active, defaultConfig)

\* the catch block that stops at the first declaration
Fallback_FirstOnly(decls) ==
  IF decls = <<>> THEN <<>> ELSE Assign(<<>>, decls[1].key, decls[1].default)

\* the catch block (lines 114-121): what fetchFeatureFlags resolves to after a failure
Fallback(decls) == DefaultsFrom(decls, 1, <<>>)

(***************************************************************************)
(* State of the page and of the hook instances (SpecHook).                 *)
(***************************************************************************)
VARIABLES
  hostStaging,    \* window.location.hostname.includes('staging')
  storage,        \* localStorage, in the order of Object.keys
  testMode,       \* window.__FLAG_TEST_MODE__
  featureFlags,   \* window.__FEATURE_FLAGS__
  hkPhase,        \* per instance: "idle", "rendered" (effect due), "mounted", "unmounted"
  hkKey,          \* per instance: the flagKey of its last render
  hkValue,        \* per instance: flagValue
  hkLoading,      \* per instance: loading
  hkChanges,      \* per instance: how often flagKey changed
  hkLoads,        \* per instance: its loadFlag calls awaiting fetchFeatureFlags,
                  \*   each with the flagKey and the `mounted` of its effect
  fetchCalls,     \* fetchFeatureFlags calls of the page
  hkCaught        \* the catch block of loadFlag (lines 94-100) ran in the last step:
                  \*   the instance and the `mounted` it read, or NoCatch

(***************************************************************************)
(* State of the remote-config.js module (SpecFetch).                       *)
(***************************************************************************)
VARIABLES
  FEATURE_FLAGS,         \* the declarations of ../config/featureFlags
  remoteConfigInstance,  \* let remoteConfigInstance: FALSE is null
  defaultConfig,         \* rc.defaultConfig
  activeConfig,          \* the activated Remote Config values of the instance
  ffPc,                  \* the fetchFeatureFlags call: "idle", "awaiting", "settled"
  ffOutcome,             \* of the last call: "none", "flags", "fallback", "rejected"
  ffFlags                \* the object the last call resolved to

fvars == <<FEATURE_FLAGS, remoteConfigInstance, defaultConfig, activeConfig, ffPc,
           ffOutcome, ffFlags>>

page == <<hostStaging, storage, testMode, fvars>>
hvars == <<page, featureFlags, hkPhase, hkKey, hkValue, hkLoading, hkChanges, hkLoads,
           fetchCalls, hkCaught>>

(***************************************************************************)
(* State of a run of one of the three scripts, as far as the choice of the *)
(* Firebase project goes (SpecProject).                                    *)
(***************************************************************************)
VARIABLES
  argv,           \* process.argv.slice(2): the flags on the command line
  projectsList,   \* firebaseConfig.result of `firebase projects:list --json`
  script,         \* "none", "validator", "deploy", "setter": the script that ran
  targetProject,  \* the projectId it used, "none" if it used none
  access          \* "none", "read" (GET remoteConfig) or "write" (PUT remoteConfig)

jvars == <<argv, projectsList, script, targetProject, access>>

(***************************************************************************)
(* State of an AuthProvider and of the Firebase Auth instances it is given *)
(* (SpecAuth).                                                             *)
(***************************************************************************)
VARIABLES
  apPhase,     \* "idle", "rendered" (effect due), "mounted", "unmounted"
  apAuth,      \* the auth prop of the latest render
  apUser,      \* const [user, setUser]
  apLoading,   \* const [loading, setLoading]
  apSubs,      \* auth instances on which a listener of this provider is registered
  apChanges,   \* renders with another auth prop
  apOps,       \* calls of login, signup, loginWithGoogle, logout
  apLast,      \* the most recent call of the listener: [called, auth, arg]
  apOp,        \* the last step: "none", "render", "effect", "callback", "unmount",
               \*   "login", "signup", "loginWithGoogle", "logout"
  sdkUser,     \* currentUser of each auth instance
  sdkDue       \* auth instances that owe their listeners a notification

avars == <<apPhase, apAuth, apUser, apLoading, apSubs, apChanges, apOps, apLast, apOp,
           sdkUser, sdkDue>>

(***************************************************************************)
(* State of a parseErrors / autoFix evaluation (SpecParse).                *)
(***************************************************************************)
VARIABLES
  logText,      \* the logs given to parseErrors, as the sequence of their pattern
                \*   occurrences
  parsed,       \* what parseErrors returned
  fixRun,       \* the commands autoFix ran for it (see FixCommands)
  ppc           \* "start", "parsed", "fixed"

pvars == <<logText, parsed, fixRun, ppc>>

(***************************************************************************)
(* State of the validator / sync machine (SpecRC).                         *)
(***************************************************************************)
VARIABLES
  rcLocal,      \* contents of scripts/framework/remote-config.json
  rcRemote,     \* the live template of the Firebase project
  rcSynced,     \* the last write of rcRemote was a successful push of the template
  rcWasSynced,  \* rcSynced before the last operation
  vErrors,      \* errors of the last run of the validator's validate
  vWarnings,    \* warnings of that run
  vExit,        \* exit code of the validator process: "none", 0 or 1
  vThrew,       \* the validator's main rejected or the config file was missing
  dErrors,      \* result of the last validateRemoteConfig
  rcLast        \* the last operation: "init", "validator", "deployValid",
                \* "deploySync", "setter"

rvars == <<rcLocal, rcRemote, rcSynced, rcWasSynced, vErrors, vWarnings, vExit, vThrew,
           dErrors, rcLast>>

(***************************************************************************)
(* State of the deploy script (Spec, SpecLive).                            *)
(***************************************************************************)
VARIABLES
  isProduction,      \* args.includes('--prod')
  curBranch,         \* what `git branch --show-current` prints
  pc,                \* position of the running deploy() call
  attempt,           \* the attempt parameter of the running deploy() call
  result,            \* "none", "true", "false" (deploy resolved) or "rejected"
  exitCode,          \* "none", 0 or 1
  validationErrors,  \* const validationErrors
  pushedCommitSha,   \* let pushedCommitSha (0: null)
  runId,             \* let runId (0: null)
  waitCount,         \* let waitCount
  statusResult,      \* let statusResult
  errors,            \* const errors = parseErrors(logs)
  dirty,             \* `git status --porcelain` prints something
  head,              \* sha of HEAD in the working copy
  remoteHead,        \* sha of the branch on the remote
  pending,           \* pushed shas whose workflow run has not started yet
  runs,              \* workflow runs of workflowName, newest first
  gitWrites,         \* git add/commit/push calls of the deploy body in this attempt
  lookups,           \* getLatestRunId(pushedCommitSha) calls in this attempt
  lookedUp,          \* some getLatestRunId call was made in this attempt
  polled,            \* getRunStatus was called in this attempt
  rcRead,            \* a Remote Config GET was issued in this attempt
  rcPut,             \* project a Remote Config PUT was issued to in this attempt, or "none"
  polledRuns,        \* ids of all runs polled by this process
  fixCommits,        \* `git commit` calls made by autoFix in this process
  autoFixCalls,      \* autoFix calls in this process
  lastFix            \* the last autoFix call: did a fix command succeed (fixed), did
                     \*   the fix commands change the working tree (changed); NoFix
                     \*   before the first call

ctl == <<pc, attempt, result, exitCode>>
locals == <<validationErrors, pushedCommitSha, runId, waitCount, statusResult, errors>>
git == <<dirty, head, remoteHead, pending>>
attGhost == <<gitWrites, lookups, lookedUp, polled, rcRead, rcPut>>
procGhost == <<polledRuns, fixCommits, autoFixCalls, lastFix>>
args == <<isProduction, curBranch>>
dvars == <<args, ctl, locals, git, runs, attGhost, procGhost>>

vars == <<rvars, dvars, hvars, pvars, jvars, avars>>

(***************************************************************************)
(* The validator and the sync as a state machine (SpecRC).                 *)
(***************************************************************************)
RCInit ==
  /\ rcLocal \in LocalConfigs
  /\ rcRemote \in RemoteConfigs
  /\ rcSynced = FALSE
  /\ rcWasSynced = FALSE
  /\ vErrors = <<>>
  /\ vWarnings = <<>>
  /\ vExit = "none"
  /\ vThrew = FALSE
  /\ dErrors = <<>>
  /\ rcLast = "init"

\* main() of the validator with main().catch: lines 104-147
\*   fileExists: fs.existsSync(RC_CONFIG_PATH); fetchOk: getRemoteConfig resolved
ValidatorMain(fileExists, fetchOk) ==
  /\ rcLast' = "validator"
  /\ rcWasSynced' = rcSynced
  /\ IF ~fileExists \/ ~fetchOk
     THEN /\ vThrew' = TRUE
          /\ vErrors' = <<>>
          /\ vWarnings' = <<>>
          /\ vExit' = 1
     ELSE LET r == validate(rcLocal, rcRemote)
          IN  /\ vThrew' = FALSE
              /\ vErrors' = r.errors
              /\ vWarnings' = r.warnings
              /\ vExit' = IF Len(r.errors) > 0 THEN 1 ELSE 0
  /\ UNCHANGED <<rcLocal, rcRemote, rcSynced, dErrors, dvars, hvars, pvars, jvars, avars>>

RunValidator == \E fileExists, fetchOk \in BOOLEAN : ValidatorMain(fileExists, fetchOk)

\* the Remote Config step of a deploy attempt, lines 456-465, the GET and the
\* PUT accepted: validateRemoteConfig, then syncRemoteConfig if it found errors
RunDeployStep ==
  /\ dErrors' = validateRemoteConfig(rcLocal, rcRemote)
  /\ rcWasSynced' = rcSynced
  /\ IF NeedsSync(dErrors')
     THEN /\ rcRemote' = Template(rcLocal)
          /\ rcSynced' = TRUE
          /\ rcLast' = "deploySync"
     ELSE /\ rcLast' = "deployValid"
          /\ UNCHANGED <<rcRemote, rcSynced>>
  /\ UNCHANGED <<rcLocal, vErrors, vWarnings, vExit, vThrew, dvars, hvars, pvars, jvars, avars>>

\* main() of the setter, lines 660-711, the PUT accepted
RunSetter ==
  /\ rcRemote' = Template(rcLocal)
  /\ rcWasSynced' = rcSynced
  /\ rcSynced' = TRUE
  /\ rcLast' = "setter"
  /\ UNCHANGED <<rcLocal, vErrors, vWarnings, vExit, vThrew, dErrors, dvars, hvars, pvars, jvars, avars>>

RCNext == RunValidator \/ RunDeployStep \/ RunSetter

(***************************************************************************)
(* The deploy script as a state machine (Spec, SpecLive).                   *)
(***************************************************************************)
Null == [status |-> "null", conclusion |-> "null"]

\* autoFix has not been called
NoFix == [fixed |-> FALSE, changed |-> FALSE]

Run(id, sha, st, c) == [databaseId |-> id, headSha |-> sha, status |-> st, conclusion |-> c]

\* the local remote-config.json of the deploy runs
DeployLocal ==
  [parameters |-> (1 :> [defaultValue |-> "control", conditionalValues |-> <<>>]),
   conditions |-> <<[name |-> 1, expression |-> "e1"]>>,
   conditionalValues |-> (1 :> (1 :> "beta"))]

\* live templates of the deploy runs: in sync, and with a wrong default
DeployRemotes ==
  {Template(DeployLocal),
   [Template(DeployLocal) EXCEPT !.parameters[1].defaultValue = "beta"]}

ProjectIdle ==
  /\ argv = {}
  /\ projectsList = <<>>
  /\ script = "none"
  /\ targetProject = "none"
  /\ access = "none"

AuthIdle ==
  /\ apPhase = "idle"
  /\ apAuth = 1
  /\ apUser = NoValue
  /\ apLoading = TRUE
  /\ apSubs = {}
  /\ apChanges = 0
  /\ apOps = 0
  /\ apLast = NoCall
  /\ apOp = "none"
  /\ sdkUser = [a \in Auths |-> NoValue]
  /\ sdkDue = {}

RCCoreIdle ==
  /\ rcSynced = FALSE
  /\ rcWasSynced = FALSE
  /\ vErrors = <<>>
  /\ vWarnings = <<>>
  /\ vExit = "none"
  /\ vThrew = FALSE
  /\ dErrors = <<>>
  /\ rcLast = "init"

RCBodyIdle == AuthIdle /\ RCCoreIdle

RCIdle == ProjectIdle /\ RCBodyIdle

FetchIdle ==
  /\ FEATURE_FLAGS = <<>>
  /\ remoteConfigInstance = FALSE
  /\ defaultConfig = <<>>
  /\ activeConfig = <<>>
  /\ ffPc = "idle"
  /\ ffOutcome = "none"
  /\ ffFlags = <<>>

HooksIdle ==
  /\ hostStaging = FALSE
  /\ storage = <<>>
  /\ testMode = Unset
  /\ featureFlags = Unset
  /\ hkPhase = [h \in Hooks |-> "idle"]
  /\ hkKey = [h \in Hooks |-> "navigation_banner"]
  /\ hkValue = [h \in Hooks |-> NoValue]
  /\ hkLoading = [h \in Hooks |-> TRUE]
  /\ hkChanges = [h \in Hooks |-> 0]
  /\ hkLoads = [h \in Hooks |-> <<>>]
  /\ fetchCalls = 0
  /\ hkCaught = NoCatch

HookIdle == FetchIdle /\ HooksIdle

ParseIdle ==
  /\ logText = <<>>
  /\ parsed = <<>>
  /\ fixRun = <<>>
  /\ ppc = "start"

DeployBodyIdle ==
  /\ isProduction = FALSE
  /\ curBranch = "main"
  /\ pc = "checkGh"
  /\ attempt = 1
  /\ result = "none"
  /\ exitCode = "none"
  /\ validationErrors = <<>>
  /\ pushedCommitSha = 0
  /\ runId = 0
  /\ waitCount = 0
  /\ statusResult = Null
  /\ errors = <<>>
  /\ dirty = FALSE
  /\ head = 2
  /\ remoteHead = 2
  /\ pending = {}
  /\ runs = <<>>
  /\ gitWrites = 0
  /\ lookups = 0
  /\ lookedUp = FALSE
  /\ polled = FALSE
  /\ rcRead = FALSE
  /\ rcPut = "none"
  /\ polledRuns = {}
  /\ fixCommits = 0
  /\ autoFixCalls = 0
  /\ lastFix = NoFix

DeployIdle == ParseIdle /\ DeployBodyIdle

\* deploy() is called once, with attempt = 1 (line 565). HEAD is commit 2; the
\* remote is at commit 2 or still at commit 1, and there is at most one earlier
\* run of the workflow, for the commit the remote is at.
Init ==
  /\ RCIdle
  /\ HookIdle
  /\ ParseIdle
  /\ rcLocal = DeployLocal
  /\ rcRemote \in DeployRemotes
  /\ isProduction \in BOOLEAN
  /\ curBranch \in {"main", "master", "feature"}
  /\ pc = "checkGh"
  /\ attempt = 1
  /\ result = "none"
  /\ exitCode = "none"
  /\ validationErrors = <<>>
  /\ pushedCommitSha = 0
  /\ runId = 0
  /\ waitCount = 0
  /\ statusResult = Null
  /\ errors = <<>>
  /\ dirty \in BOOLEAN
  /\ head = 2
  /\ remoteHead \in {1, 2}
  /\ pending = {}
  /\ runs \in {<<>>} \cup {<<Run(1, remoteHead, "in_progress", "")>>}
                \cup {<<Run(1, remoteHead, "completed", c)>> : c \in {"success", "failure"}}
  /\ gitWrites = 0
  /\ lookups = 0
  /\ lookedUp = FALSE
  /\ polled = FALSE
  /\ rcRead = FALSE
  /\ rcPut = "none"
  /\ polledRuns = {}
  /\ fixCommits = 0
  /\ autoFixCalls = 0
  /\ lastFix = NoFix

\* `return v` of deploy(); a return of the recursive call is the return of all
Return(v) ==
  /\ pc' = "returned"
  /\ result' = v
  /\ UNCHANGED <<attempt, exitCode>>

\* an exception leaves deploy(): the promise rejects
Reject == Return("rejected")

Goto(l) ==
  /\ pc' = l
  /\ UNCHANGED <<attempt, result, exitCode>>

\* lines 434-439: checkGhInstalled()
DeployCheckGh ==
  /\ pc = "checkGh"
  /\ \E ghInstalled \in BOOLEAN :
       IF ~ghInstalled THEN Return("false") ELSE Goto("checkBranch")
  /\ UNCHANGED <<hvars, pvars, jvars, avars, rvars, args, locals, git, runs, attGhost, procGhost>>

\* the branch check going on to the commit and push at once
DeployCheckBranch_SkipValidation ==
  /\ pc = "checkBranch"
  /\ IF BranchRejected(curBranch) THEN Return("false") ELSE Goto("prepare")
  /\ UNCHANGED <<hvars, pvars, jvars, avars, rvars, args, locals, git, runs, attGhost, procGhost>>

\* lines 441-452: the branch check
DeployCheckBranch ==
  /\ pc = "checkBranch"
  /\ IF BranchRejected(curBranch) THEN Return("false") ELSE Goto("validate")
  /\ UNCHANGED <<hvars, pvars, jvars, avars, rvars, args, locals, git, runs, attGhost, procGhost>>

\* lines 456-457 with validateRemoteConfig, getRemoteConfig, getAccessToken:
\* the file may be missing, the token unavailable, the GET refused
DeployValidate ==
  /\ pc = "validate"
  /\ \E fileExists, tokenOk, getOk \in BOOLEAN :
       IF ~fileExists \/ ~tokenOk
       THEN Reject /\ UNCHANGED <<validationErrors, rcRead>>
       ELSE /\ rcRead' = TRUE
            /\ IF ~getOk
               THEN Reject /\ UNCHANGED validationErrors
               ELSE /\ validationErrors' = validateRemoteConfig(rcLocal, rcRemote)
                    /\ Goto(IF NeedsSync(validationErrors') THEN "sync" ELSE "guards")
  /\ UNCHANGED <<hvars, pvars, jvars, avars, rvars, args, pushedCommitSha, runId, waitCount, statusResult, errors,
                 git, runs, gitWrites, lookups, lookedUp, polled, rcPut, procGhost>>

\* the sync with a refused PUT ignored
DeploySync_SwallowPut ==
  /\ pc = "sync"
  /\ \E fileExists, tokenOk, putOk \in BOOLEAN :
       IF ~fileExists \/ ~tokenOk
       THEN Reject /\ UNCHANGED <<rcRemote, rcPut>>
       ELSE /\ rcPut' = ProjectId(isProduction)
            /\ IF putOk
               THEN rcRemote' = Template(rcLocal) /\ Goto("guards")
               ELSE Goto("guards") /\ UNCHANGED rcRemote
  /\ UNCHANGED <<hvars, pvars, jvars, avars, rcLocal, rcSynced, rcWasSynced, vErrors, vWarnings, vExit, vThrew,
                 dErrors, rcLast, args, locals, git, runs, gitWrites, lookups, lookedUp, polled, rcRead,
                 procGhost>>

\* lines 458-462 with syncRemoteConfig, setRemoteConfig
DeploySync ==
  /\ pc = "sync"
  /\ \E fileExists, tokenOk, putOk \in BOOLEAN :
       IF ~fileExists \/ ~tokenOk
       THEN Reject /\ UNCHANGED <<rcRemote, rcPut>>
       ELSE /\ rcPut' = ProjectId(isProduction)
            /\ IF putOk
               THEN rcRemote' = Template(rcLocal) /\ Goto("guards")
               ELSE Reject /\ UNCHANGED rcRemote
  /\ UNCHANGED <<hvars, pvars, jvars, avars, rcLocal, rcSynced, rcWasSynced, vErrors, vWarnings, vExit, vThrew,
                 dErrors, rcLast, args, locals, git, runs, gitWrites, lookups, lookedUp, polled, rcRead,
                 procGhost>>

\* lines 467-484: the production guard, the attempt budget, beforeRunId
DeployGuards ==
  /\ pc = "guards"
  /\ IF ProductionGuard(isProduction)
     THEN Return("false") /\ UNCHANGED lookedUp
     ELSE IF BudgetExhausted(attempt)
     THEN Return("false") /\ UNCHANGED lookedUp
     ELSE Goto("prepare") /\ lookedUp' = TRUE
  /\ UNCHANGED <<hvars, pvars, jvars, avars, rvars, args, locals, git, runs, gitWrites, lookups, polled, rcRead, rcPut,
                 procGhost>>

\* `git push` that succeeded: the remote moves to h and a workflow run is due
Pushed(ok, h) ==
  IF ok /\ h # remoteHead
  THEN remoteHead' = h /\ pending' = pending \cup {h}
  ELSE UNCHANGED <<remoteHead, pending>>

\* lines 486-497: commit and push of local changes; run() swallows failures
DeployCommitPush ==
  /\ pc = "prepare"
  /\ IF dirty
     THEN \E commitOk, pushOk \in BOOLEAN :
            /\ gitWrites' = gitWrites + 3
            /\ head' = IF commitOk THEN head + 1 ELSE head
            /\ dirty' = ~commitOk
            /\ Pushed(pushOk, head')
     ELSE UNCHANGED <<gitWrites, git>>
  /\ Goto("readHead")
  /\ UNCHANGED <<hvars, pvars, jvars, avars, rvars, args, locals, runs, lookups, lookedUp, polled, rcRead, rcPut,
                 procGhost>>

\* lines 499-502: git rev-parse HEAD
DeployReadHead ==
  /\ pc = "readHead"
  /\ pushedCommitSha' = head
  /\ Goto("lookup")
  /\ UNCHANGED <<hvars, pvars, jvars, avars, rvars, args, validationErrors, runId, waitCount, statusResult, errors,
                 git, runs, attGhost, procGhost>>

\* one getLatestRunId(pushedCommitSha): `gh run list` may fail (null)
Lookup(ghOk) ==
  IF ghOk THEN getLatestRunId(Take(runs, RUN_LIST_LIMIT), pushedCommitSha) ELSE 0

\* the loop with one more retry
AfterLookup_OneMore(id, wc) ==
  IF id # 0 THEN Goto("poll")
  ELSE IF wc <= MAX_WAIT THEN Goto("wait")
  ELSE Return("false")

\* where the loop of lines 506-516 goes after a lookup
AfterLookup(id, wc) ==
  IF id # 0 THEN Goto("poll")
  ELSE IF wc < MAX_WAIT THEN Goto("wait")
  ELSE Return("false")

\* lines 504-505: the first lookup
DeployLookup ==
  /\ pc = "lookup"
  /\ \E ghOk \in BOOLEAN :
       /\ runId' = Lookup(ghOk)
       /\ waitCount' = 0
       /\ AfterLookup(runId', waitCount')
  /\ lookups' = lookups + 1
  /\ lookedUp' = TRUE
  /\ UNCHANGED <<hvars, pvars, jvars, avars, rvars, args, validationErrors, pushedCommitSha, statusResult, errors,
                 git, runs, gitWrites, polled, rcRead, rcPut, procGhost>>

\* lines 506-516: one iteration of the wait loop
DeployWait ==
  /\ pc = "wait"
  /\ \E ghOk \in BOOLEAN :
       /\ runId' = Lookup(ghOk)
       /\ waitCount' = waitCount + 1
       /\ AfterLookup(runId', waitCount')
  /\ lookups' = lookups + 1
  /\ lookedUp' = TRUE
  /\ UNCHANGED <<hvars, pvars, jvars, avars, rvars, args, validationErrors, pushedCommitSha, statusResult, errors,
                 git, runs, gitWrites, polled, rcRead, rcPut, procGhost>>

RunById(id) == runs[CHOOSE i \in DOMAIN runs : runs[i].databaseId = id]

\* lines 521-537: one iteration of the polling loop; `gh run view` may fail (null)
DeployPoll(ghOk) ==
  /\ pc = "poll"
  /\ polled' = TRUE
  /\ polledRuns' = polledRuns \cup {runId}
  /\ IF ~ghOk
     THEN statusResult' = Null /\ Goto("poll")
     ELSE /\ statusResult' = [status |-> RunById(runId).status,
                              conclusion |-> RunById(runId).conclusion]
          /\ IF ~PollDone(statusResult') THEN Goto("poll")
             ELSE IF DeploySucceeded(statusResult') THEN Return("true")
             ELSE Goto("logs")
  /\ UNCHANGED <<hvars, pvars, jvars, avars, rvars, args, validationErrors, pushedCommitSha, runId, waitCount, errors,
                 git, runs, gitWrites, lookups, lookedUp, rcRead, rcPut,
                 fixCommits, autoFixCalls, lastFix>>

DeployPollStep == \E ghOk \in BOOLEAN : DeployPoll(ghOk)

\* lines 539-551: getRunLogs and parseErrors
DeployLogs ==
  /\ pc = "logs"
  /\ \E logs \in Logs :
       /\ errors' = parseErrors(logs)
       /\ IF Len(errors') = 0 THEN Return("false") ELSE Goto("autoFix")
  /\ UNCHANGED <<hvars, pvars, jvars, avars, rvars, args, validationErrors, pushedCommitSha, runId, waitCount,
                 statusResult, git, runs, attGhost, procGhost>>

\* lines 553-562 with autoFix (389-426): the fix commands, the commit and push
\* of the fixes, and the recursive call deploy(attempt + 1)
DeployAutoFix ==
  /\ pc = "autoFix"
  /\ autoFixCalls' = autoFixCalls + 1
  /\ LET cmds == FixCommands(errors)
     IN  \E ok \in [DOMAIN cmds -> BOOLEAN], changed, commitOk, pushOk \in BOOLEAN :
           LET fixed == \E i \in DOMAIN cmds : ok[i]
               status == dirty \/ (Len(cmds) > 0 /\ changed)
           IN  /\ lastFix' = [fixed |-> fixed, changed |-> Len(cmds) > 0 /\ changed]
               /\ IF fixed /\ status
                  THEN /\ fixCommits' = fixCommits + 1
                       /\ head' = IF commitOk THEN head + 1 ELSE head
                       /\ dirty' = ~commitOk
                       /\ Pushed(pushOk, head')
                       /\ pc' = "checkGh"
                       /\ attempt' = attempt + 1
                       /\ UNCHANGED <<result, exitCode>>
                       /\ validationErrors' = <<>>
                       /\ pushedCommitSha' = 0
                       /\ runId' = 0
                       /\ waitCount' = 0
                       /\ statusResult' = Null
                       /\ errors' = <<>>
                       /\ gitWrites' = 0
                       /\ lookups' = 0
                       /\ lookedUp' = FALSE
                       /\ polled' = FALSE
                       /\ rcRead' = FALSE
                       /\ rcPut' = "none"
                  ELSE /\ dirty' = status
                       /\ Return("false")
                       /\ UNCHANGED <<locals, head, remoteHead, pending, attGhost, fixCommits>>
  /\ UNCHANGED <<hvars, pvars, jvars, avars, rvars, args, runs, polledRuns>>

\* lines 565-577: deploy().then(...).catch(...)
ProcessExit ==
  /\ pc = "returned"
  /\ pc' = "exited"
  /\ exitCode' = ExitCodeOf(result)
  /\ UNCHANGED <<hvars, pvars, jvars, avars, rvars, args, attempt, result, locals, git, runs, attGhost, procGhost>>

\* GitHub starts the workflow run of a pushed commit
WorkflowStart ==
  /\ \E s \in pending :
       /\ runs' = <<Run(Len(runs) + 1, s, "in_progress", "")>> \o runs
       /\ pending' = pending \ {s}
  /\ UNCHANGED <<hvars, pvars, jvars, avars, rvars, args, ctl, locals, dirty, head, remoteHead, attGhost, procGhost>>

\* a workflow run completes
WorkflowProgress(i) ==
  /\ i \in DOMAIN runs
  /\ runs[i].status = "in_progress"
  /\ \E c \in {"success", "failure"} :
       runs' = [runs EXCEPT ![i].status = "completed", ![i].conclusion = c]
  /\ UNCHANGED <<hvars, pvars, jvars, avars, rvars, args, ctl, locals, git, attGhost, procGhost>>

WorkflowProgressStep == \E i \in DOMAIN runs : WorkflowProgress(i)

\* the live template is changed in the Firebase Console (LIFECYCLE.md, Kill
\* Switch); the script sees the live template at its next GET only, so the
\* change is taken right before that GET
ConsoleEdit ==
  /\ pc = "validate"
  /\ \E t \in DeployRemotes : t # rcRemote /\ rcRemote' = t
  /\ UNCHANGED <<hvars, pvars, jvars, avars, rcLocal, rcSynced, rcWasSynced, vErrors, vWarnings, vExit, vThrew,
                 dErrors, rcLast, dvars>>

DeployStep ==
  \/ DeployCheckGh
  \/ DeployCheckBranch
  \/ DeployValidate
  \/ DeploySync
  \/ DeployGuards
  \/ DeployCommitPush
  \/ DeployReadHead
  \/ DeployLookup
  \/ DeployWait
  \/ DeployLogs
  \/ DeployAutoFix
  \/ ProcessExit

Next ==
  \/ DeployStep
  \/ DeployPollStep
  \/ WorkflowStart
  \/ WorkflowProgressStep
  \/ ConsoleEdit

Spec == Init /\ [][Next]_vars

\* index in runs of the run being polled
PolledRun == CHOOSE i \in DOMAIN runs : runs[i].databaseId = runId

\* The script runs on: every step of deploy() that can change the state is
\* eventually taken; `gh run view` eventually answers; the run being polled
\* eventually completes.
SpecLive ==
  /\ Spec
  /\ WF_vars(DeployStep)
  /\ WF_vars(DeployPoll(TRUE))
  /\ WF_vars(pc = "poll" /\ WorkflowProgress(PolledRun))

InitRC == RCInit /\ ProjectIdle /\ AuthIdle /\ DeployIdle /\ HookIdle

SpecRC == InitRC /\ [][RCNext]_vars

(***************************************************************************)
(* The useFeatureFlag hook as a state machine (SpecHook).                  *)
(***************************************************************************)
\* a page load: the hostname, localStorage and the test override are given,
\* window.__FEATURE_FLAGS__ is unset, no component has rendered
HookInit ==
  /\ FetchIdle
  /\ hostStaging \in BOOLEAN
  /\ storage \in HookStorages
  /\ testMode \in TestModes
  /\ featureFlags = Unset
  /\ hkPhase = [h \in Hooks |-> "idle"]
  /\ hkKey = [h \in Hooks |-> "navigation_banner"]
  /\ hkValue = [h \in Hooks |-> NoValue]
  /\ hkLoading = [h \in Hooks |-> TRUE]
  /\ hkChanges = [h \in Hooks |-> 0]
  /\ hkLoads = [h \in Hooks |-> <<>>]
  /\ fetchCalls = 0
  /\ hkCaught = NoCatch

\* the cleanup of an effect: mounted = false in the closure of its loadFlag
Cleanup(loads) == [i \in DOMAIN loads |-> [loads[i] EXCEPT !.alive = FALSE]]

\* first render of an instance: the two useState initializers (lines 38-47)
HookRender(h, k) ==
  /\ hkPhase[h] = "idle"
  /\ hkPhase' = [hkPhase EXCEPT ![h] = "rendered"]
  /\ hkKey' = [hkKey EXCEPT ![h] = k]
  /\ hkValue' = [hkValue EXCEPT ![h] = getInitialValue(hostStaging, storage, k)]
  /\ hkLoading' = [hkLoading EXCEPT ![h] = InitialLoading(hostStaging, storage, k)]
  /\ hkCaught' = NoCatch
  /\ UNCHANGED <<page, featureFlags, hkChanges, hkLoads, fetchCalls, rvars, dvars, pvars, jvars, avars>>

\* a later render with another flagKey: the state is kept, the effect is due
HookRerender(h, k) ==
  /\ hkPhase[h] = "mounted"
  /\ k # hkKey[h]
  /\ hkChanges[h] < MaxKeyChanges
  /\ hkPhase' = [hkPhase EXCEPT ![h] = "rendered"]
  /\ hkKey' = [hkKey EXCEPT ![h] = k]
  /\ hkChanges' = [hkChanges EXCEPT ![h] = @ + 1]
  /\ hkCaught' = NoCatch
  /\ UNCHANGED <<page, featureFlags, hkValue, hkLoading, hkLoads, fetchCalls,
                 rvars, dvars, pvars, jvars, avars>>

\* the effect (lines 49-108): the cleanup of the previous effect, then loadFlag
\* up to its first await
HookEffect(h) ==
  /\ hkPhase[h] = "rendered"
  /\ hkPhase' = [hkPhase EXCEPT ![h] = "mounted"]
  /\ LET now == LoadNow(hostStaging, storage, testMode, featureFlags, hkKey[h])
     IN  IF now.set
         THEN /\ hkValue' = [hkValue EXCEPT ![h] = now.value]
              /\ hkLoading' = [hkLoading EXCEPT ![h] = FALSE]
              /\ hkLoads' = [hkLoads EXCEPT ![h] = Cleanup(@)]
              /\ UNCHANGED fetchCalls
         ELSE /\ hkLoads' = [hkLoads EXCEPT
                   ![h] = Append(Cleanup(@), [key |-> hkKey[h], alive |-> TRUE])]
              /\ fetchCalls' = fetchCalls + 1
              /\ UNCHANGED <<hkValue, hkLoading>>
  /\ hkCaught' = NoCatch
  /\ UNCHANGED <<page, featureFlags, hkKey, hkChanges, rvars, dvars, pvars, jvars, avars>>

\* the resolution setting the state without looking at `mounted`
HookResolve_IgnoreMounted(h, flags) ==
  /\ hkLoads[h] # <<>>
  /\ featureFlags' = Given(flags)
  /\ hkLoads' = [hkLoads EXCEPT ![h] = Tail(@)]
  /\ hkValue' = [hkValue EXCEPT ![h] = OrNull(flags[Head(hkLoads[h]).key])]
  /\ hkLoading' = [hkLoading EXCEPT ![h] = FALSE]
  /\ hkCaught' = NoCatch
  /\ UNCHANGED <<page, hkPhase, hkKey, hkChanges, fetchCalls, rvars, dvars, pvars, jvars, avars>>

\* fetchFeatureFlags resolves for the oldest waiting loadFlag of an instance:
\* lines 84-93
HookResolve(h, flags) ==
  /\ hkLoads[h] # <<>>
  /\ featureFlags' = Given(flags)
  /\ hkLoads' = [hkLoads EXCEPT ![h] = Tail(@)]
  /\ IF Head(hkLoads[h]).alive
     THEN /\ hkValue' = [hkValue EXCEPT ![h] = OrNull(flags[Head(hkLoads[h]).key])]
          /\ hkLoading' = [hkLoading EXCEPT ![h] = FALSE]
     ELSE UNCHANGED <<hkValue, hkLoading>>
  /\ hkCaught' = NoCatch
  /\ UNCHANGED <<page, hkPhase, hkKey, hkChanges, fetchCalls, rvars, dvars, pvars, jvars, avars>>

\* the awaited fetchFeatureFlags rejects and nothing is set
HookReject_NoCatch(h) ==
  /\ hkLoads[h] # <<>>
  /\ hkLoads' = [hkLoads EXCEPT ![h] = Tail(@)]
  /\ hkCaught' = [hook |-> h, alive |-> Head(hkLoads[h]).alive]
  /\ UNCHANGED <<page, featureFlags, hkPhase, hkKey, hkValue, hkLoading, hkChanges,
                 fetchCalls, rvars, dvars, pvars, jvars, avars>>

\* the awaited fetchFeatureFlags rejects for the oldest waiting loadFlag of an
\* instance: the catch block, lines 94-100
HookReject(h) ==
  /\ hkLoads[h] # <<>>
  /\ hkLoads' = [hkLoads EXCEPT ![h] = Tail(@)]
  /\ hkCaught' = [hook |-> h, alive |-> Head(hkLoads[h]).alive]
  /\ IF Head(hkLoads[h]).alive
     THEN /\ hkValue' = [hkValue EXCEPT ![h] = NoValue]
          /\ hkLoading' = [hkLoading EXCEPT ![h] = FALSE]
     ELSE UNCHANGED <<hkValue, hkLoading>>
  /\ UNCHANGED <<page, featureFlags, hkPhase, hkKey, hkChanges, fetchCalls, rvars, dvars, pvars, jvars, avars>>

\* the awaited promise of an instance settles
HookSettle(h) == (\E flags \in FetchResults : HookResolve(h, flags)) \/ HookReject(h)

\* the component unmounts: the cleanup of its effect (lines 105-107); React
\* drops the state of the instance
HookUnmount(h) ==
  /\ hkPhase[h] \in {"rendered", "mounted"}
  /\ hkPhase' = [hkPhase EXCEPT ![h] = "unmounted"]
  /\ hkLoads' = [hkLoads EXCEPT ![h] = Cleanup(@)]
  /\ hkKey' = [hkKey EXCEPT ![h] = "navigation_banner"]
  /\ hkValue' = [hkValue EXCEPT ![h] = NoValue]
  /\ hkLoading' = [hkLoading EXCEPT ![h] = TRUE]
  /\ hkChanges' = [hkChanges EXCEPT ![h] = 0]
  /\ hkCaught' = NoCatch
  /\ UNCHANGED <<page, featureFlags, fetchCalls, rvars, dvars, pvars, jvars, avars>>

HookNext ==
  \/ \E h \in Hooks, k \in FlagKeys : HookRender(h, k)
  \/ \E h \in Hooks, k \in FlagKeys : HookRerender(h, k)
  \/ \E h \in Hooks : HookEffect(h)
  \/ \E h \in Hooks, flags \in FetchResults : HookResolve(h, flags)
  \/ \E h \in Hooks : HookReject(h)
  \/ \E h \in Hooks : HookUnmount(h)

InitHook == HookInit /\ RCIdle /\ rcLocal = DeployLocal /\ rcRemote = Template(DeployLocal)
            /\ DeployIdle

SpecHook == InitHook /\ [][HookNext]_vars

\* React runs the effect of a committed render, and the awaited promise settles
SpecHookLive ==
  SpecHook /\ \A h \in Hooks : WF_vars(HookEffect(h)) /\ WF_vars(HookSettle(h))

(***************************************************************************)
(* fetchFeatureFlags as a state machine (SpecFetch).                       *)
(***************************************************************************)
hookOnly == <<hostStaging, storage, testMode, featureFlags, hkPhase, hkKey, hkValue,
              hkLoading, hkChanges, hkLoads, fetchCalls, hkCaught>>

\* the module is loaded: the declarations are given, no instance exists; the
\* Remote Config SDK may hold values activated on an earlier visit
FetchInit ==
  /\ FEATURE_FLAGS \in FlagDeclarations
  /\ remoteConfigInstance = FALSE
  /\ defaultConfig = <<>>
  /\ activeConfig \in ServerConfigs
  /\ ffPc = "idle"
  /\ ffOutcome = "none"
  /\ ffFlags = <<>>

\* a call of fetchFeatureFlags up to its await (lines 96-106):
\* getRemoteConfigInstance (lines 82-93) creates the instance unless it exists,
\* createOk says whether initializeApp / getRemoteConfig return; a throw is
\* caught at line 114
FetchCall(createOk) ==
  /\ ffPc \in {"idle", "settled"}
  /\ IF ~remoteConfigInstance /\ ~createOk
     THEN /\ ffPc' = "settled"
          /\ ffOutcome' = "fallback"
          /\ ffFlags' = Fallback(FEATURE_FLAGS)
          /\ UNCHANGED <<remoteConfigInstance, defaultConfig>>
     ELSE /\ remoteConfigInstance' = TRUE
          /\ defaultConfig' = DefaultsFrom(FEATURE_FLAGS, 1, <<>>)
          /\ ffPc' = "awaiting"
          /\ ffOutcome' = "none"
          /\ UNCHANGED ffFlags
  /\ UNCHANGED <<FEATURE_FLAGS, activeConfig, hookOnly, rvars, dvars, pvars, jvars, avars>>

\* fetchAndActivate settles (lines 106-113, or the catch of lines 114-121):
\* fetched says whether it resolved, server what is active afterwards
FetchSettle(fetched, server) ==
  /\ ffPc = "awaiting"
  /\ ffPc' = "settled"
  /\ IF fetched
     THEN /\ activeConfig' = server
          /\ ffOutcome' = "flags"
          /\ ffFlags' = FlagsFrom(FEATURE_FLAGS, 1, <<>>, server, defaultConfig)
     ELSE /\ ffOutcome' = "fallback"
          /\ ffFlags' = Fallback(FEATURE_FLAGS)
          /\ UNCHANGED activeConfig
  /\ UNCHANGED <<FEATURE_FLAGS, remoteConfigInstance, defaultConfig, hookOnly, rvars, dvars, pvars, jvars, avars>>

FetchNext ==
  \/ \E createOk \in BOOLEAN : FetchCall(createOk)
  \/ \E fetched \in BOOLEAN, server \in ServerConfigs : FetchSettle(fetched, server)

InitFetch == FetchInit /\ HooksIdle /\ RCIdle /\ rcLocal = DeployLocal
             /\ rcRemote = Template(DeployLocal) /\ DeployIdle

SpecFetch == InitFetch /\ [][FetchNext]_vars

(***************************************************************************)
(* parseErrors and the commands of autoFix on their own (SpecParse).       *)
(***************************************************************************)
ParseInit ==
  /\ logText \in ParseLogs
  /\ parsed = <<>>
  /\ fixRun = <<>>
  /\ ppc = "start"

\* const errors = parseErrors(logs)
ParseStep ==
  /\ ppc = "start"
  /\ parsed' = parseErrors(logText)
  /\ ppc' = "parsed"
  /\ UNCHANGED <<logText, fixRun, rvars, dvars, hvars, jvars, avars>>

\* the loop of autoFix over the errors (lines 392-412): the commands it runs
FixStep ==
  /\ ppc = "parsed"
  /\ fixRun' = FixCommands(parsed)
  /\ ppc' = "fixed"
  /\ UNCHANGED <<logText, parsed, rvars, dvars, hvars, jvars, avars>>

ParseNext == ParseStep \/ FixStep

InitParse == ParseInit /\ RCIdle /\ rcLocal = DeployLocal /\ rcRemote = Template(DeployLocal)
             /\ HookIdle /\ DeployBodyIdle

SpecParse == InitParse /\ [][ParseNext]_vars

(***************************************************************************)
(* The choice of the Firebase project by the three scripts (SpecProject).  *)
(***************************************************************************)
ProjectInit ==
  /\ argv \in SUBSET Flags
  /\ projectsList \in ProjectLists
  /\ script = "none"
  /\ targetProject = "none"
  /\ access = "none"

\* main() of the validator: getProjectId(), then getRemoteConfig(projectId)
ValidatorProject ==
  /\ script = "none"
  /\ script' = "validator"
  /\ targetProject' = ValidatorProjectId(argv)
  /\ access' = "read"
  /\ UNCHANGED <<argv, projectsList, rvars, dvars, hvars, pvars, avars>>

\* deploy(): isProduction = args.includes('--prod'), projectId (line 454),
\* validateRemoteConfig(projectId), and syncRemoteConfig(projectId) when it
\* found errors (lines 457-462)
DeployProject(hasErrors) ==
  /\ script = "none"
  /\ script' = "deploy"
  /\ targetProject' = ProjectId("--prod" \in argv)
  /\ access' = IF hasErrors THEN "write" ELSE "read"
  /\ UNCHANGED <<argv, projectsList, rvars, dvars, hvars, pvars, avars>>

\* main() of the setter: getProjectId(), then setRemoteConfig(projectId, template);
\* listOk: `firebase projects:list --json` ran and printed JSON (it is run only
\* when neither flag is given); when it throws, main rejects before any request
SetterProject(listOk) ==
  /\ script = "none"
  /\ script' = "setter"
  /\ IF argv = {} /\ ~listOk
     THEN /\ targetProject' = "none"
          /\ access' = "none"
     ELSE /\ targetProject' = SetterProjectId(argv, projectsList)
          /\ access' = "write"
  /\ UNCHANGED <<argv, projectsList, rvars, dvars, hvars, pvars, avars>>

ProjectNext ==
  \/ ValidatorProject
  \/ \E hasErrors \in BOOLEAN : DeployProject(hasErrors)
  \/ \E listOk \in BOOLEAN : SetterProject(listOk)

InitProject == ProjectInit /\ RCBodyIdle /\ rcLocal = DeployLocal
               /\ rcRemote = Template(DeployLocal) /\ HookIdle /\ DeployIdle

SpecProject == InitProject /\ [][ProjectNext]_vars

(***************************************************************************)
(* AuthProvider as a state machine (SpecAuth).                             *)
(***************************************************************************)
\* before the first render; the auth instances may have a signed-in user
AuthInit ==
  /\ apPhase = "idle"
  /\ apAuth = 1
  /\ apUser = NoValue
  /\ apLoading = TRUE
  /\ apSubs = {}
  /\ apChanges = 0
  /\ apOps = 0
  /\ apLast = NoCall
  /\ apOp = "none"
  /\ sdkUser \in [Auths -> AuthUsers \cup {NoValue}]
  /\ sdkDue = {}

\* first render: useState(null), useState(true) (lines 22-23)
AuthRender(a) ==
  /\ apPhase = "idle"
  /\ apPhase' = "rendered"
  /\ apAuth' = a
  /\ apUser' = NoValue
  /\ apLoading' = TRUE
  /\ apOp' = "render"
  /\ UNCHANGED <<apSubs, apChanges, apOps, apLast, sdkUser, sdkDue, rvars, dvars, hvars, pvars, jvars>>

\* a later render with another auth prop: the state is kept, the effect is due
AuthRerender(a) ==
  /\ apPhase = "mounted"
  /\ a # apAuth
  /\ apChanges < MaxAuthChanges
  /\ apPhase' = "rendered"
  /\ apAuth' = a
  /\ apChanges' = apChanges + 1
  /\ apOp' = "render"
  /\ UNCHANGED <<apUser, apLoading, apSubs, apOps, apLast, sdkUser, sdkDue,
                 rvars, dvars, hvars, pvars, jvars>>

\* the effect that keeps the listeners of the previous effects registered
AuthEffect_NoCleanup ==
  /\ apPhase = "rendered"
  /\ apPhase' = "mounted"
  /\ apSubs' = apSubs \cup {apAuth}
  /\ sdkDue' = sdkDue \cup {apAuth}
  /\ apOp' = "effect"
  /\ UNCHANGED <<apAuth, apUser, apLoading, apChanges, apOps, apLast, sdkUser,
                 rvars, dvars, hvars, pvars, jvars>>

\* the effect (lines 25-31): the cleanup of the previous effect (unsubscribe),
\* then onAuthStateChanged(auth, ...), which owes the new listener a first call
AuthEffect ==
  /\ apPhase = "rendered"
  /\ apPhase' = "mounted"
  /\ apSubs' = {apAuth}
  /\ sdkDue' = {apAuth}
  /\ apOp' = "effect"
  /\ UNCHANGED <<apAuth, apUser, apLoading, apChanges, apOps, apLast, sdkUser,
                 rvars, dvars, hvars, pvars, jvars>>

\* auth instance a calls the registered listener (lines 26-29)
AuthCallback(a) ==
  /\ a \in apSubs
  /\ a \in sdkDue
  /\ sdkDue' = sdkDue \ {a}
  /\ apUser' = sdkUser[a]
  /\ apLoading' = FALSE
  /\ apLast' = [called |-> TRUE, auth |-> a, arg |-> sdkUser[a]]
  /\ apOp' = "callback"
  /\ UNCHANGED <<apPhase, apAuth, apSubs, apChanges, apOps, sdkUser, rvars, dvars, hvars, pvars, jvars>>

\* login, signup, loginWithGoogle, logout (lines 33-48): the call is forwarded
\* to the SDK with the auth of the latest render; u is the user the SDK ends
\* with (unchanged when the call fails)
AuthCall(op, u) ==
  /\ apPhase \in {"rendered", "mounted"}
  /\ apOps < MaxAuthOps
  /\ apOps' = apOps + 1
  /\ apOp' = op
  /\ u \in (IF op = "logout" THEN {NoValue} ELSE AuthUsers) \cup {sdkUser[apAuth]}
  /\ sdkUser' = [sdkUser EXCEPT ![apAuth] = u]
  /\ sdkDue' = IF u # sdkUser[apAuth] THEN sdkDue \cup {apAuth} ELSE sdkDue
  /\ UNCHANGED <<apPhase, apAuth, apUser, apLoading, apSubs, apChanges, apLast,
                 rvars, dvars, hvars, pvars, jvars>>

\* the provider unmounts: the cleanup of its effect (line 30)
AuthUnmount ==
  /\ apPhase \in {"rendered", "mounted"}
  /\ apPhase' = "unmounted"
  /\ apSubs' = {}
  /\ apOp' = "unmount"
  /\ UNCHANGED <<apAuth, apUser, apLoading, apChanges, apOps, apLast, sdkUser, sdkDue,
                 rvars, dvars, hvars, pvars, jvars>>

AuthNext ==
  \/ \E a \in Auths : AuthRender(a)
  \/ \E a \in Auths : AuthRerender(a)
  \/ AuthEffect
  \/ \E a \in Auths : AuthCallback(a)
  \/ \E op \in AuthOps, u \in AuthUsers \cup {NoValue} : AuthCall(op, u)
  \/ AuthUnmount

InitAuth == AuthInit /\ ProjectIdle /\ RCCoreIdle /\ rcLocal = DeployLocal
            /\ rcRemote = Template(DeployLocal) /\ HookIdle /\ DeployIdle

SpecAuth == InitAuth /\ [][AuthNext]_vars

(***************************************************************************)
(* Properties of the deploy script.                                        *)
(***************************************************************************)
Settled == pc \in {"returned", "exited"}

\* C1: at most MAX_ATTEMPTS workflow runs are polled and at most MAX_ATTEMPTS
\* auto-fix commits are made; a deploy call with attempt > MAX_ATTEMPTS makes no
\* git add/commit/push, looks up and polls no run, and never returns true.
C1_RetryBudget ==
  /\ Cardinality(polledRuns) <= MAX_ATTEMPTS
  /\ fixCommits <= MAX_ATTEMPTS
  /\ attempt > MAX_ATTEMPTS =>
       /\ gitWrites = 0
       /\ lookups = 0
       /\ ~lookedUp
       /\ ~polled
       /\ Settled => result \in {"false", "rejected"}

\* the budget is used up: five runs polled, five fix commits, the sixth call returned false
C1_Witness ==
  /\ attempt = MAX_ATTEMPTS + 1
  /\ pc = "returned"
  /\ result = "false"
  /\ fixCommits = MAX_ATTEMPTS
  /\ Cardinality(polledRuns) > 1

\* C2: under the fairness of SpecLive every execution of deploy eventually
\* settles; the recursion depth (attempt) never exceeds MAX_ATTEMPTS + 1; the
\* polling loop is left by the step that reads status 'completed'.
C2_Termination ==
  /\ <>(result # "none")
  /\ [](attempt <= MAX_ATTEMPTS + 1)
  /\ [][(pc = "poll" /\ statusResult'.status = "completed") => pc' # "poll"]_vars

\* deploy returned after it had polled a run to completion in a retry
C2_Witness ==
  /\ Settled
  /\ polled
  /\ attempt > 1
  /\ statusResult.status = "completed"

C4_ProductionGuarded ==
  isProduction =>
    /\ gitWrites = 0
    /\ fixCommits = 0
    /\ autoFixCalls = 0
    /\ lookups = 0
    /\ ~lookedUp
    /\ ~polled
    /\ polledRuns = {}
    /\ attempt = 1
    /\ Settled => result \in {"false", "rejected"}
    /\ pc = "exited" => exitCode = 1

\* a --prod run passed the Remote Config step and was stopped by the guard
C4_Witness ==
  /\ isProduction
  /\ pc = "exited"
  /\ result = "false"
  /\ rcRead
  /\ exitCode = 1

\* C5: with --prod no Remote Config PUT is issued to project argbase-prod.
C5_NoProductionPut == isProduction => rcPut # "argbase-prod"

\* C6: on a branch other than main and master deploy returns false before any
\* Remote Config read or PUT, any git add/commit/push, any run lookup or poll.
C6_MainBranchOnly ==
  curBranch \notin {"main", "master"} =>
    /\ ~rcRead
    /\ rcPut = "none"
    /\ gitWrites = 0
    /\ fixCommits = 0
    /\ autoFixCalls = 0
    /\ lookups = 0
    /\ ~lookedUp
    /\ ~polled
    /\ pc \in {"checkGh", "checkBranch", "returned", "exited"}
    /\ Settled => result = "false"

\* the branch check turned a deploy from a feature branch down
C6_Witness ==
  /\ curBranch = "feature"
  /\ pc = "exited"
  /\ result = "false"
  /\ exitCode = 1

\* the attempt has completed its Remote Config step (lines 456-465)
PastRemoteConfigStep ==
  /\ rcRead
  /\ pc \notin {"validate", "sync"}
  /\ result # "rejected"

\* C7: a PUT is issued only after validateRemoteConfig returned an error; an
\* attempt that completed its Remote Config step issued a PUT if and only if
\* validateRemoteConfig returned an error; a step of the script taken while the
\* live config passes validation leaves the live config unchanged.
C7_SyncOnlyOnDiscrepancy ==
  /\ [](rcPut # "none" => Len(validationErrors) > 0)
  /\ [](PastRemoteConfigStep => (rcPut # "none" <=> Len(validationErrors) > 0))
  /\ [][(DeployStep /\ Len(validateRemoteConfig(rcLocal, rcRemote)) = 0)
         => rcRemote' = rcRemote]_vars

\* one attempt synced the live config, a later one found it valid and left it alone
C7_Witness ==
  /\ attempt > 1
  /\ pc = "guards"
  /\ rcPut = "none"
  /\ Len(validationErrors) = 0
  /\ rcRemote = Template(rcLocal)

\* the other case of C7: the comparison found a discrepancy and the template was put
C7_WitnessPut ==
  /\ pc = "guards"
  /\ rcPut = "argbase-staging"
  /\ Len(validationErrors) > 0

(***************************************************************************)
(* Properties of the validator and of the sync (SpecRC).                   *)
(***************************************************************************)
\* C8: once the live template is the pushed template, the validator's validate
\* and validateRemoteConfig find no error for the same local config, and the
\* Remote Config step of a later deploy attempt does not sync again.
C8_SyncThenValidateClean ==
  /\ rcSynced => rcRemote = Template(rcLocal)
  /\ (rcWasSynced /\ rcLast = "validator" /\ ~vThrew) => (vErrors = <<>> /\ vExit = 0)
  /\ (rcWasSynced /\ rcLast \in {"deployValid", "deploySync"}) =>
       (dErrors = <<>> /\ rcLast = "deployValid")

\* the template of a config with conditional values was pushed and validated
C8_Witness ==
  /\ rcWasSynced
  /\ rcLast = "validator"
  /\ ~vThrew
  /\ vErrors = <<>>
  /\ \E p \in DOMAIN rcLocal.parameters :
       /\ p \in DOMAIN rcLocal.conditionalValues
       /\ rcLocal.conditionalValues[p] # <<>>
  /\ rcLocal.conditions # <<>>

\* what the validator is to establish: the local config is contained in the live one
Contained(localConfig, remoteConfig) ==
  /\ \A p \in DOMAIN localConfig.parameters :
       /\ p \in DOMAIN remoteConfig.parameters
       /\ localConfig.parameters[p].defaultValue = remoteConfig.parameters[p].defaultValue
       /\ p \in DOMAIN localConfig.conditionalValues =>
            \A c \in DOMAIN localConfig.conditionalValues[p] :
              /\ c \in DOMAIN remoteConfig.parameters[p].conditionalValues
              /\ localConfig.conditionalValues[p][c] =
                   remoteConfig.parameters[p].conditionalValues[c]
  /\ \A i \in DOMAIN localConfig.conditions :
       \E j \in DOMAIN remoteConfig.conditions :
         /\ remoteConfig.conditions[j].name = localConfig.conditions[i].name
         /\ remoteConfig.conditions[j].expression = localConfig.conditions[i].expression

ExtraParams(localConfig, remoteConfig) ==
  DOMAIN remoteConfig.parameters \ DOMAIN localConfig.parameters

\* C9: validate returns no error if and only if the local config is contained
\* in the live one; a live parameter absent from the local config gives a
\* warning and no error; the validator exits with 1 exactly when there is an
\* error or main failed, whatever the warnings.
C9_ValidatorVerdict ==
  rcLast = "validator" =>
    /\ ~vThrew => (vErrors = <<>> <=> Contained(rcLocal, rcRemote))
    /\ ~vThrew => {w.param : w \in Range(vWarnings)} = ExtraParams(rcLocal, rcRemote)
    /\ \A x \in Range(vErrors) : x.kind # "extra"
    /\ vExit = 1 <=> (vErrors # <<>> \/ vThrew)
    /\ vExit = 0 <=> (vErrors = <<>> /\ ~vThrew)

\* the validator passed a live config that has an extra parameter: warning, exit 0
C9_Witness ==
  /\ rcLast = "validator"
  /\ ~vThrew
  /\ vErrors = <<>>
  /\ vWarnings # <<>>
  /\ vExit = 0
  /\ rcLocal.conditions # <<>>

(***************************************************************************)
(* Properties of the useFeatureFlag hook (SpecHook).                       *)
(***************************************************************************)
\* the instance has rendered and has always been called with navigation_banner
AlwaysBanner(h) ==
  /\ hkPhase[h] \in {"rendered", "mounted"}
  /\ hkKey[h] = "navigation_banner"
  /\ hkChanges[h] = 0

\* C10: on a staging hostname an instance of useFeatureFlag('navigation_banner')
\* has flagValue 'beta' and loading false in every state from its first render
\* on, and never calls fetchFeatureFlags (it has no loadFlag waiting for it
\* in any state), whatever the test override, the
\* cached flags and localStorage are.
C10_StagingAlwaysBeta ==
  hostStaging =>
    \A h \in Hooks :
      AlwaysBanner(h) => /\ hkValue[h] = "beta"
                         /\ hkLoading[h] = FALSE
                         /\ hkLoads[h] = <<>>

\* a staging page where the test override says 'control' and localStorage
\* says no opt-in
C10_Witness ==
  /\ hostStaging
  /\ testMode.on
  /\ testMode.map["navigation_banner"] = "control"
  /\ storage # <<>>
  /\ ~getBetaFromStorage(storage)
  /\ \E h \in Hooks : AlwaysBanner(h) /\ hkPhase[h] = "mounted" /\ hkValue[h] = "beta"

\* some key of localStorage begins with 'beta_enabled_' and has the value 'true'
HasBetaOptIn(store) == \E i \in DOMAIN store : store[i].beta /\ store[i].value = "true"

\* C11: whenever localStorage holds a key beginning with 'beta_enabled_' whose
\* value is 'true', an instance of useFeatureFlag('navigation_banner') has
\* flagValue 'beta' and loading false from its first render on and has no
\* loadFlag waiting for fetchFeatureFlags, whatever the other keys are.
C11_BetaOptIn ==
  HasBetaOptIn(storage) =>
    \A h \in Hooks :
      AlwaysBanner(h) => /\ hkValue[h] = "beta"
                         /\ hkLoading[h] = FALSE
                         /\ hkLoads[h] = <<>>

\* the key of the instance is one for which staging or the stored opt-in
\* decides before the test override is read
BetaDecides(h) ==
  hkKey[h] = "navigation_banner" /\ (hostStaging \/ getBetaFromStorage(storage))

\* C12 as stated: with window.__FLAG_TEST_MODE__ set, an instance that is
\* not loading has the override's value for its key (null when empty), for
\* every key, and fetchFeatureFlags is never called.
C12_OverrideWins ==
  testMode.on =>
    /\ fetchCalls = 0
    /\ \A h \in Hooks :
         (hkPhase[h] \in {"rendered", "mounted"} /\ hkChanges[h] = 0 /\ ~hkLoading[h])
           => hkValue[h] = OrNull(testMode.map[hkKey[h]])

\* C12 amended: with window.__FLAG_TEST_MODE__ set, fetchFeatureFlags is never
\* called, and an instance whose effect for its flagKey has run and that is
\* not loading has the override's value for the key (null when empty), unless
\* the key is 'navigation_banner' on a staging host or with getBetaFromStorage()
\* true, where it has 'beta'.
C12_TestOverride ==
  testMode.on =>
    /\ fetchCalls = 0
    /\ \A h \in Hooks :
         (hkPhase[h] = "mounted" /\ ~hkLoading[h])
           => hkValue[h] = IF BetaDecides(h) THEN "beta"
                           ELSE OrNull(testMode.map[hkKey[h]])

\* the override has decided navigation_banner for an instance, and after its
\* flagKey changed has given null for the key the override does not hold
C12_Witness ==
  /\ testMode.on
  /\ ~hostStaging
  /\ ~getBetaFromStorage(storage)
  /\ \E h \in Hooks : /\ hkPhase[h] = "mounted" /\ ~hkLoading[h]
                       /\ hkChanges[h] = 1
                       /\ hkKey[h] = "default_flag" /\ hkValue[h] = NoValue

(***************************************************************************)
(* Properties of fetchFeatureFlags (SpecFetch).                            *)
(***************************************************************************)
DeclaredKeys(decls) == {decls[i].key : i \in DOMAIN decls}

\* the default declared for key k (of its last declaration, should the key be
\* declared twice)
DeclaredDefault(decls, k) ==
  LET i == CHOOSE i \in DOMAIN decls :
             decls[i].key = k /\ \A j \in DOMAIN decls : j > i => decls[j].key # k
  IN  decls[i].default

\* C13: fetchFeatureFlags never rejects; after a failure of the instance
\* creation or of fetchAndActivate it resolves to a map of exactly the declared
\* keys, each with its declared default; after a success to a map of exactly
\* the declared keys, each with the string getString gives for it.
C13_FetchFallback ==
  /\ ffOutcome # "rejected"
  /\ ffPc = "settled" => ffOutcome \in {"flags", "fallback"}
  /\ ffOutcome = "fallback" =>
       /\ DOMAIN ffFlags = DeclaredKeys(FEATURE_FLAGS)
       /\ \A k \in DOMAIN ffFlags : ffFlags[k] = DeclaredDefault(FEATURE_FLAGS, k)
  /\ ffOutcome = "flags" =>
       /\ DOMAIN ffFlags = DeclaredKeys(FEATURE_FLAGS)
       /\ \A k \in DOMAIN ffFlags :
            ffFlags[k] = IF k \in DOMAIN activeConfig THEN activeConfig[k]
                         ELSE DeclaredDefault(FEATURE_FLAGS, k)

\* fetchAndActivate failed on an existing instance with two flags declared
C13_Witness ==
  /\ ffPc = "settled"
  /\ ffOutcome = "fallback"
  /\ remoteConfigInstance
  /\ Cardinality(DOMAIN ffFlags) = 2

\* the instance is mounted and its flagKey has not changed since its first render
Stays(h) == hkPhase[h] \in {"rendered", "mounted"} /\ hkChanges[h] = 0

\* C14: under the fairness of SpecHookLive (effects run, the awaited fetch
\* settles), an instance that stays mounted with an unchanged flagKey
\* eventually has loading false for good; loading never goes from false to
\* true while the instance lives; and when the catch block of loadFlag has run
\* for a mounted instance its flagValue is null and its loading false.
C14_FinishesLoading ==
  /\ \A h \in Hooks : (<>[]Stays(h)) => <>[](~hkLoading[h])
  /\ [][\A h \in Hooks :
          (~hkLoading[h] /\ hkPhase'[h] # "unmounted") => ~hkLoading'[h]]_vars
  /\ [](\A h \in Hooks :
          hkCaught = [hook |-> h, alive |-> TRUE]
            => hkValue[h] = NoValue /\ ~hkLoading[h])

\* the fetch awaited by a mounted instance rejected: null and not loading
C14_Witness ==
  \E h \in Hooks :
    /\ Stays(h)
    /\ hkCaught = [hook |-> h, alive |-> TRUE]
    /\ hkValue[h] = NoValue
    /\ ~hkLoading[h]

(***************************************************************************)
(* Further properties of the deploy script.                                *)
(***************************************************************************)
\* C15: a deploy call with attempt > MAX_ATTEMPTS performs no external write:
\* no Remote Config PUT and no git add/commit/push.
C15_NoWritesWhenExhausted ==
  attempt > MAX_ATTEMPTS => (rcPut = "none" /\ gitWrites = 0)

\* C16: deploy calls itself with attempt + 1 only out of autoFix, after the
\* polled run completed with a conclusion other than 'success', parseErrors
\* found an error type and a fix command succeeded; and with that call the fix
\* commit exists (HEAD advanced), the remote branch is at it and a workflow run
\* for it is due.
C16_RetryFollowsPushedFix ==
  [][attempt' = attempt + 1 =>
       /\ pc = "autoFix"
       /\ polled
       /\ statusResult.status = "completed"
       /\ statusResult.conclusion # "success"
       /\ Len(errors) > 0
       /\ lastFix'.fixed
       /\ head' = head + 1
       /\ remoteHead' = head'
       /\ head' \in pending']_vars

\* parseErrors found the build pattern only
OnlyBuild(errs) == Len(errs) = 1 /\ errs[1].type = "build"

\* C17: when the logs match none of the patterns, or only the build pattern,
\* or every fix command fails, or the fix commands leave the working tree
\* unchanged, the step that ends the attempt makes no commit and no push and
\* returns false without a further attempt.
C17_NoRetryWithoutFix ==
  [][(\/ pc = "logs" /\ pc' # "logs" /\ errors' = <<>>
      \/ /\ pc = "autoFix" /\ pc' # "autoFix"
         /\ (OnlyBuild(errors) \/ ~lastFix'.fixed \/ ~lastFix'.changed))
       => /\ result' = "false"
          /\ attempt' = attempt
          /\ fixCommits' = fixCommits
          /\ head' = head
          /\ remoteHead' = remoteHead
          /\ pending' = pending]_vars

(***************************************************************************)
(* Properties of parseErrors (SpecParse).                                  *)
(***************************************************************************)
\* position of an error type in the order eslint, build, dependency (0: none of them)
TypeRank(t) ==
  IF t = "eslint" THEN 1 ELSE IF t = "build" THEN 2 ELSE IF t = "dependency" THEN 3 ELSE 0

\* the kinds of pattern occurrence in a log
KindsIn(text) == {text[i].kind : i \in DOMAIN text}

\* the module names of the 'Cannot find module' occurrences of a log
ModulesIn(text) == {text[i].module : i \in {j \in DOMAIN text : text[j].kind = "dep"}}

\* C18: parseErrors returns at most one entry per error type, in the order
\* eslint, build, dependency, and an entry for a type exactly when its pattern
\* occurs; the result is empty iff no pattern occurs; the dependency entry
\* lists exactly the missing module names, each once; and autoFix runs npm
\* install once per listed name (and eslint --fix at most once).
C18_ParseErrors ==
  ppc \in {"parsed", "fixed"} =>
    /\ \A i \in DOMAIN parsed : TypeRank(parsed[i].type) > 0
    /\ \A i, j \in DOMAIN parsed :
         i < j => TypeRank(parsed[i].type) < TypeRank(parsed[j].type)
    /\ {TypeRank(parsed[i].type) : i \in DOMAIN parsed}
         = {TypeRank(IF k = "dep" THEN "dependency" ELSE k) : k \in KindsIn(logText)} \ {0}
    /\ parsed = <<>> <=> KindsIn(logText) \subseteq {"other"}
    /\ \A i \in DOMAIN parsed :
         parsed[i].type = "dependency" =>
           /\ Range(parsed[i].matches) = ModulesIn(logText)
           /\ \A a, b \in DOMAIN parsed[i].matches :
                parsed[i].matches[a] = parsed[i].matches[b] => a = b
    /\ ppc = "fixed" =>
         /\ \A a, b \in DOMAIN fixRun : fixRun[a] = fixRun[b] => a = b
         /\ {fixRun[a] : a \in DOMAIN fixRun} \ {0} = ModulesIn(logText)

\* a log with an eslint error and the same missing module reported twice
C18_Witness ==
  /\ ppc = "fixed"
  /\ Len(logText) = 3
  /\ Cardinality({i \in DOMAIN logText : logText[i].kind = "dep"}) = 2
  /\ Len(parsed) = 2
  /\ parsed[1].type = "eslint"
  /\ Len(fixRun) = 2

(***************************************************************************)
(* Properties of the choice of the project.                                *)
(***************************************************************************)
\* C19: project argbase-prod is read or written only when --prod is on the
\* command line, and with neither --prod nor --staging the project a script
\* uses is argbase-staging.
C19_ProdOnlyOnRequest ==
  /\ targetProject = "argbase-prod" => "--prod" \in argv
  /\ (argv = {} /\ access # "none") => targetProject = "argbase-staging"

(***************************************************************************)
(* Properties of the pushed template.                                      *)
(***************************************************************************)
TemplatePushed == rcLast \in {"deploySync", "setter"}

\* C20: the template pushed by syncRemoteConfig or by the setter contains every
\* local parameter with its local default value and all local conditions; a
\* parameter that appears only under conditionalValues has default value
\* 'control'; each parameter listed under conditionalValues carries exactly the
\* local conditional values for it.
C20_TemplateKeepsLocal ==
  TemplatePushed =>
    /\ rcRemote.conditions = rcLocal.conditions
    /\ \A p \in DOMAIN rcLocal.parameters :
         /\ p \in DOMAIN rcRemote.parameters
         /\ rcRemote.parameters[p].defaultValue = rcLocal.parameters[p].defaultValue
    /\ \A p \in DOMAIN rcLocal.conditionalValues :
         /\ p \in DOMAIN rcRemote.parameters
         /\ p \notin DOMAIN rcLocal.parameters =>
              rcRemote.parameters[p].defaultValue = "control"
         /\ rcRemote.parameters[p].conditionalValues = rcLocal.conditionalValues[p]

\* the deploy step pushed a template for a file whose parameter is declared
\* only under conditionalValues, over a live template that had another default
C20_Witness ==
  /\ rcLast = "deploySync"
  /\ rcLocal.parameters = <<>>
  /\ 1 \in DOMAIN rcLocal.conditionalValues
  /\ rcLocal.conditionalValues[1] # <<>>
  /\ Len(rcLocal.conditions) > 0
  /\ rcRemote.parameters[1].defaultValue = "control"

(***************************************************************************)
(* Properties relating the two validators.                                 *)
(***************************************************************************)
\* C21: for every local file and live template, the deploy script's
\* validateRemoteConfig returns an empty error list exactly when validate of
\* the standalone validator returns an empty error list.
C21_ValidatorsAgree ==
  (Len(validateRemoteConfig(rcLocal, rcRemote)) = 0)
    <=> (Len(validate(rcLocal, rcRemote).errors) = 0)

(***************************************************************************)
(* Properties of the order of the steps of a deploy attempt.               *)
(***************************************************************************)
\* the steps that may come right before a step of one attempt
StepBefore(l) ==
  CASE l = "checkBranch" -> {"checkGh"}
    [] l = "validate"    -> {"checkBranch"}
    [] l = "sync"        -> {"validate"}
    [] l = "guards"      -> {"validate", "sync"}
    [] l = "prepare"     -> {"guards"}
    [] l = "readHead"    -> {"prepare"}
    [] l = "lookup"      -> {"readHead"}
    [] l = "wait"        -> {"lookup", "wait"}
    [] l = "poll"        -> {"lookup", "wait", "poll"}
    [] l = "logs"        -> {"poll"}
    [] l = "autoFix"     -> {"logs"}
    [] OTHER             -> {"checkGh", "checkBranch", "validate", "sync", "guards", "prepare",
                             "readHead", "lookup", "wait", "poll", "logs", "autoFix", "returned"}

InRemoteConfigStep == pc \in {"validate", "sync"}

\* C23: the attempt goes past the Remote Config step only when the GET and,
\* if a sync was needed, the PUT were accepted; a Remote Config step that ends
\* the attempt ends it with a rejection; a rejected deploy has made no git
\* add/commit/push, no run lookup and no poll in that attempt, stays rejected,
\* and the process exits with code 1.
C23_RemoteConfigFailureAborts ==
  [][/\ (pc = "validate" /\ pc' \in {"sync", "guards"}) =>
          (rcRead' /\ validationErrors' = validateRemoteConfig(rcLocal, rcRemote))
     /\ (pc = "sync" /\ pc' = "guards") => rcRemote' = Template(rcLocal)
     /\ (InRemoteConfigStep /\ pc' = "returned") => result' = "rejected"
     /\ result' = "rejected" =>
          /\ result = "none" => InRemoteConfigStep
          /\ gitWrites' = 0 /\ lookups' = 0 /\ ~lookedUp' /\ ~polled'
          /\ pc' = "exited" => exitCode' = 1]_vars

\* the GET of a retry was refused and the process has exited
C23_Witness ==
  /\ result = "rejected"
  /\ pc = "exited"
  /\ exitCode = 1
  /\ attempt > 1
  /\ rcRead
  /\ rcPut = "none"

(***************************************************************************)
(* Properties of the wait for the workflow run.                            *)
(***************************************************************************)
\* C24: in one attempt getLatestRunId(pushedCommitSha) is called at most
\* MAX_WAIT + 1 = 13 times; when the wait ends without a run id deploy returns
\* false after exactly 13 lookups, and from then on no run is polled, no log is
\* fetched, autoFix is not called and no further attempt is made.
C24_BoundedWait ==
  /\ [](lookups <= MAX_WAIT + 1)
  /\ [][(pc \in {"lookup", "wait"} /\ pc' = "returned") =>
          (result' = "false" /\ runId' = 0 /\ lookups' = MAX_WAIT + 1 /\ ~polled')]_vars
  /\ [][(lookups' > lookups /\ runId' = 0) => pc' \in {"wait", "returned"}]_vars
  /\ [][(Settled /\ runId = 0) =>
          (attempt' = attempt /\ polled' = polled /\ polledRuns' = polledRuns
           /\ autoFixCalls' = autoFixCalls /\ errors' = errors /\ result' = result)]_vars

\* the thirteenth lookup of a retry found no run and deploy returned false
C24_Witness ==
  /\ pc = "returned"
  /\ result = "false"
  /\ lookups = MAX_WAIT + 1
  /\ runId = 0
  /\ ~polled
  /\ attempt > 1

(***************************************************************************)
(* Properties of the loads of useFeatureFlag.                              *)
(***************************************************************************)
\* C25: on one page fetchFeatureFlags is called at most once, whatever the
\* instances do.
C25_FetchOnce == fetchCalls <= 1
\* a step in which the oldest waiting load of instance h settles
Settles(h) == hkLoads[h] # <<>> /\ hkLoads'[h] = Tail(hkLoads[h])

StateKept(h) == hkValue'[h] = hkValue[h] /\ hkLoading'[h] = hkLoading[h]

\* C26 as stated: a load that settles after its instance was unmounted, or
\* after the instance was rendered with another flagKey than the one the load
\* was started for, sets neither flagValue nor loading.
C26_StaleDiscarded ==
  [][\A h \in Hooks :
       (Settles(h) /\ (hkPhase[h] = "unmounted" \/ Head(hkLoads[h]).key # hkKey[h]))
         => StateKept(h)]_vars

\* C26, amended: a load whose effect was cleaned up (by the unmount, or by the
\* re-run of the effect for a changed flagKey) sets neither flagValue nor
\* loading when it settles; at most one load of an instance is not cleaned up,
\* the one started last, and none is once the instance is unmounted.
C26_CleanedUpDiscarded ==
  /\ [][\A h \in Hooks : (Settles(h) /\ ~Head(hkLoads[h]).alive) => StateKept(h)]_vars
  /\ [](\A h \in Hooks :
          /\ \A i \in DOMAIN hkLoads[h] : hkLoads[h][i].alive => i = Len(hkLoads[h])
          /\ hkPhase[h] = "unmounted" => \A i \in DOMAIN hkLoads[h] : ~hkLoads[h][i].alive
          /\ hkPhase[h] = "mounted" =>
               \A i \in DOMAIN hkLoads[h] : hkLoads[h][i].alive => hkLoads[h][i].key = hkKey[h])

\* the fetch of the load started for the old key has just rejected after the
\* effect re-ran for the new key: the instance still waits for the new load
C26_Witness ==
  /\ hkCaught = [hook |-> 1, alive |-> FALSE]
  /\ hkPhase[1] = "mounted"
  /\ hkChanges[1] = 1
  /\ hkLoading[1]
  /\ Len(hkLoads[1]) = 1
  /\ hkLoads[1][1].alive
\* what loadFlag sets for the current flagKey of an instance without awaiting
ResolvedNow(h) == LoadNow(hostStaging, storage, testMode, featureFlags, hkKey[h])

\* C27: whenever an instance has loading = false and the page determines the
\* value of its current flagKey (staging, stored opt-in, test override or the
\* cached flags), flagValue is that value.
C27_LoadingMeansCurrent ==
  \A h \in Hooks :
    (hkPhase[h] \in {"rendered", "mounted"} /\ ~hkLoading[h] /\ ResolvedNow(h).set)
      => hkValue[h] = ResolvedNow(h).value

(***************************************************************************)
(* Properties of AuthProvider.                                             *)
(***************************************************************************)
\* C28: loading is true exactly until the listener is first called; user is
\* the argument of the most recent call of the listener (null before the
\* first); only a call of the listener changes user or loading, so login,
\* signup, loginWithGoogle and logout change neither; once the effect has run
\* the only registered listener is the one on the current auth, after the
\* unmount none is, and the listener is only ever called by an auth instance
\* it is registered on.
C28_AuthFollowsSdk ==
  /\ [](apLoading <=> ~apLast.called)
  /\ [](apUser = IF apLast.called THEN apLast.arg ELSE NoValue)
  /\ [][(apUser' # apUser \/ apLoading' # apLoading) => apOp' = "callback"]_vars
  /\ [][apOp' \in AuthOps => (apUser' = apUser /\ apLoading' = apLoading /\ apLast' = apLast)]_vars
  /\ [](apPhase = "mounted" => apSubs = {apAuth})
  /\ [](apPhase = "unmounted" => apSubs = {})
  /\ [][apLast' # apLast => (apLast'.auth \in apSubs /\ apPhase \in {"rendered", "mounted"})]_vars

\* after a change of auth the listener on the new instance was called with
\* the user signed in there, following a login
C28_Witness ==
  /\ apPhase = "mounted"
  /\ apChanges = 1
  /\ apOps > 0
  /\ apLast.called
  /\ apLast.auth = apAuth
  /\ apUser \in AuthUsers
  /\ ~apLoading
  /\ sdkUser[apAuth] = apUser

====
